---- MODULE Spec2Model ----
(***************************************************************************)
(* Model of the SQL front end of cuckoodb (src/parser.rs): the Tokenizer   *)
(* that turns query text into tokens, and the precedence-climbing Parser   *)
(* that turns tokens into an ASTNode.  The recursive descent is modelled   *)
(* as a machine with an explicit call stack; each action is one step of    *)
(* one function, between two calls to other parsing functions.             *)
(***************************************************************************)
EXTENDS Integers, Sequences, FiniteSets, TLC

VARIABLES entry, query, pos, rawTokens, tokResult, tokens, index, stack, ret,
          phase, outcome, func, fargs, result

vars == <<entry, query, pos, rawTokens, tokResult, tokens, index, stack, ret,
          phase, outcome, func, fargs, result>>

(***************************************************************************)
(* Bounds of the model.                                                    *)
(***************************************************************************)
MaxQueryLen == 3
MaxTokLen == 3
MaxExtraTokens == 2
MaxProj == 2
MaxArgs == 2
MaxFields == 3

(***************************************************************************)
(* Characters.  A text is a sequence of one-character strings.             *)
(***************************************************************************)
LowerSeq == <<"a","b","c","d","e","f","g","h","i","j","k","l","m",
              "n","o","p","q","r","s","t","u","v","w","x","y","z">>
UpperSeq == <<"A","B","C","D","E","F","G","H","I","J","K","L","M",
              "N","O","P","Q","R","S","T","U","V","W","X","Y","Z">>
LowerLetters == {LowerSeq[i] : i \in 1..26}
UpperLetters == {UpperSeq[i] : i \in 1..26}
Digits == {"0","1","2","3","4","5","6","7","8","9"}

IsWhitespace(ch) == ch \in {" ", "\t", "\n"}
IsIdentStart(ch) == ch \in LowerLetters \cup UpperLetters \cup {"_", "@"}
IsIdentPart(ch) == ch \in LowerLetters \cup UpperLetters \cup {"_"} \cup Digits
IsDigit(ch) == ch \in Digits

UpperChar(ch) ==
    IF ch \in LowerLetters
    THEN UpperSeq[CHOOSE i \in 1..26 : LowerSeq[i] = ch]
    ELSE ch
ToUppercase(s) == [i \in 1..Len(s) |-> UpperChar(s[i])]

Keywords ==
    { <<"S","E","L","E","C","T">>, <<"F","R","O","M">>, <<"W","H","E","R","E">>,
      <<"L","I","M","I","T">>, <<"O","R","D","E","R">>, <<"G","R","O","U","P">>,
      <<"B","Y">>, <<"U","N","I","O","N">>, <<"A","L","L">>,
      <<"U","P","D","A","T","E">>, <<"D","E","L","E","T","E">>, <<"I","N">>,
      <<"N","O","T">>, <<"N","U","L","L">>, <<"S","E","T">> }

(***************************************************************************)
(* Values: Option, Result, Token, ParserError.                             *)
(***************************************************************************)
None == [kind |-> "None"]
Some(v) == [kind |-> "Some", val |-> v]
Ok(v) == [status |-> "Ok", val |-> v]
Err(e) == [status |-> "Err", val |-> e]
NoRet == [status |-> "NoRet", val |-> None]
Panic == [status |-> "Panic", val |-> None]

Tok(type) == [type |-> type, text |-> <<>>]
Identifier(s) == [type |-> "Identifier", text |-> s]
Keyword(s) == [type |-> "Keyword", text |-> s]
Number(s) == [type |-> "Number", text |-> s]
Whitespace == Tok("Whitespace")

TokenizerError(ch) == [kind |-> "TokenizerError", msg |-> "unhandled char", ch |-> ch]
ParserError(msg) == [kind |-> "ParserError", msg |-> msg, ch |-> ""]

(***************************************************************************)
(* Tokenizer::next_token: one call, from the position pos (the number of   *)
(* characters already consumed from the peekable iterator).                *)
(***************************************************************************)
RECURSIVE IdentEnd(_, _)
IdentEnd(q, p) ==
    IF p < Len(q) /\ IsIdentPart(q[p + 1]) THEN IdentEnd(q, p + 1) ELSE p

RECURSIVE NumberEnd(_, _)
NumberEnd(q, p) ==
    IF p < Len(q) /\ IsDigit(q[p + 1]) THEN NumberEnd(q, p + 1) ELSE p

KeywordOrIdentifier(s) ==
    IF ToUppercase(s) \in Keywords THEN Keyword(s) ELSE Identifier(s)

Emit(tok, p) == [res |-> Ok(Some(tok)), pos |-> p]

NextToken(q, p) ==
    IF p >= Len(q) THEN [res |-> Ok(None), pos |-> p]
    ELSE LET ch == q[p + 1]
             nx == IF p + 1 < Len(q) THEN q[p + 2] ELSE ""
         IN
         CASE IsWhitespace(ch) -> Emit(Whitespace, p + 1)
           [] IsIdentStart(ch) ->
                Emit(KeywordOrIdentifier(SubSeq(q, p + 1, IdentEnd(q, p))), IdentEnd(q, p))
           [] IsDigit(ch) ->
                Emit(Number(SubSeq(q, p + 1, NumberEnd(q, p))), NumberEnd(q, p))
           [] ch = "," -> Emit(Tok("Comma"), p + 1)
           [] ch = "(" -> Emit(Tok("LParen"), p + 1)
           [] ch = ")" -> Emit(Tok("RParen"), p + 1)
           [] ch = "+" -> Emit(Tok("Plus"), p + 1)
           [] ch = "-" -> Emit(Tok("Minus"), p + 1)
           [] ch = "*" -> Emit(Tok("Mult"), p + 1)
           [] ch = "/" -> Emit(Tok("Div"), p + 1)
           [] ch = "=" -> Emit(Tok("Eq"), p + 1)
           [] ch = "<" ->
                IF nx = "=" THEN Emit(Tok("LtEq"), p + 2)
                ELSE IF nx = ">" THEN Emit(Tok("Neq"), p + 2)
                ELSE Emit(Tok("Lt"), p + 1)
           [] ch = ">" ->
                IF nx = "=" THEN Emit(Tok("GtEq"), p + 2)
                ELSE Emit(Tok("Gt"), p + 1)
           [] OTHER -> [res |-> Err(TokenizerError(ch)), pos |-> p]

(* The filter that closes Tokenizer::tokenize. *)
FilterWhitespaceKeepAll(toks) == toks
FilterWhitespace(toks) == SelectSeq(toks, LAMBDA t : t.type # "Whitespace")

(***************************************************************************)
(* Tokenizer::tokenize as a function of the query text.  A call of         *)
(* next_token that emits a token without consuming a character is repeated *)
(* forever with the same result, so tokenize does not return.              *)
(***************************************************************************)
Diverges == [status |-> "Diverges", val |-> None]

RECURSIVE TokenizeFrom(_, _, _)
TokenizeFrom(q, p, acc) ==
    LET r == NextToken(q, p) IN
    IF r.res.status = "Err" THEN r.res
    ELSE IF r.res.val.kind = "None" THEN Ok(FilterWhitespace(acc))
    ELSE IF r.pos = p THEN Diverges
    ELSE TokenizeFrom(q, r.pos, Append(acc, r.res.val.val))

TokenizeAll(q) == TokenizeFrom(q, 0, <<>>)

(***************************************************************************)
(* ASTNode, as the parser constructs it.                                   *)
(***************************************************************************)
SQLIdentifier(id) == [kind |-> "SQLIdentifier", id |-> id, parts |-> <<>>]
SQLFunction(id, args) == [kind |-> "SQLFunction", id |-> id, args |-> args]
SQLBinaryExpr(left, op, right) ==
    [kind |-> "SQLBinaryExpr", left |-> left, op |-> op, right |-> right]
SQLLiteralInt(v) == [kind |-> "SQLLiteralInt", value |-> v]

SQLSelect(projection, selection, relation) ==
    [kind |-> "SQLSelect", projection |-> projection, selection |-> selection,
     relation |-> relation, limit |-> None, order |-> None]

(***************************************************************************)
(* n.parse::<i64>().unwrap(): the value is kept as its decimal numeral     *)
(* without leading zeros; a numeral above i64::MAX makes unwrap panic.     *)
(***************************************************************************)
DigitSeq == <<"0","1","2","3","4","5","6","7","8","9">>
DigitVal(ch) == (CHOOSE i \in 1..10 : DigitSeq[i] = ch) - 1
I64Max == <<"9","2","2","3","3","7","2","0","3","6","8","5","4","7","7","5","8","0","7">>

RECURSIVE StripZeros(_)
StripZeros(s) ==
    IF Len(s) > 1 /\ s[1] = "0" THEN StripZeros(Tail(s)) ELSE s

RECURSIVE NumeralLeq(_, _)
NumeralLeq(a, b) ==
    IF Len(a) # Len(b) THEN Len(a) < Len(b)
    ELSE IF a = <<>> THEN TRUE
    ELSE IF a[1] # b[1] THEN DigitVal(a[1]) < DigitVal(b[1])
    ELSE NumeralLeq(Tail(a), Tail(b))

ParseI64(s) ==
    IF s # <<>> /\ (\A i \in 1..Len(s) : IsDigit(s[i])) /\ NumeralLeq(StripZeros(s), I64Max)
    THEN Ok(StripZeros(s))
    ELSE Err("ParseIntError")

(***************************************************************************)
(* Parser primitives: peek_token, next_token, parse_keyword, the           *)
(* precedence table and the operator table.                                *)
(***************************************************************************)
PeekToken(toks, idx) == IF idx < Len(toks) THEN Some(toks[idx + 1]) ELSE None

NextIndexUnchecked(toks, idx) == idx + 1
NextIndex(toks, idx) == IF idx < Len(toks) THEN idx + 1 ELSE idx

ParserNextToken(toks, idx) ==
    [tok |-> PeekToken(toks, idx), index |-> NextIndex(toks, idx)]

GetPrecedenceNoLt(tok) ==
    IF tok.type \in {"Eq", "LtEq", "Neq", "Gt", "GtEq"} THEN 20
    ELSE IF tok.type \in {"Plus", "Minus"} THEN 30
    ELSE IF tok.type \in {"Mult", "Div"} THEN 40
    ELSE 0
GetPrecedence(tok) ==
    IF tok.type \in {"Eq", "Lt", "LtEq", "Neq", "Gt", "GtEq"} THEN 20
    ELSE IF tok.type \in {"Plus", "Minus"} THEN 30
    ELSE IF tok.type \in {"Mult", "Div"} THEN 40
    ELSE 0

ToSqlOperator(tok) ==
    CASE tok.type = "Eq" -> Ok("EQ")
      [] tok.type = "Lt" -> Ok("LT")
      [] tok.type = "LtEq" -> Ok("LTEQ")
      [] tok.type = "Gt" -> Ok("GT")
      [] tok.type = "GtEq" -> Ok("GTEQ")
      [] OTHER -> Err(ParserError("Unsupported operator"))

ParseKeywordNoAdvance(toks, idx, expected) ==
    LET pk == PeekToken(toks, idx)
        hit == /\ pk.kind = "Some"
               /\ pk.val.type = "Keyword"
               /\ ToUppercase(expected) = ToUppercase(pk.val.text)
    IN [matched |-> hit, index |-> idx]
ParseKeyword(toks, idx, expected) ==
    LET pk == PeekToken(toks, idx)
        hit == /\ pk.kind = "Some"
               /\ pk.val.type = "Keyword"
               /\ ToUppercase(expected) = ToUppercase(pk.val.text)
    IN [matched |-> hit, index |-> IF hit THEN NextIndex(toks, idx) ELSE idx]

(* parse_expr, line 191: the loop stops at a token that does not bind tighter. *)
StopsAtStrict(precedence, next_precedence) == precedence > next_precedence
StopsAt(precedence, next_precedence) == precedence >= next_precedence

(* parse_infix: the tokens that have an infix rule. *)
HasInfixRule(tok) == tok.type \in {"Eq", "Gt"}

(* parse_prefix, lines 221-223: the node built after the token that follows
   the argument list was consumed, whatever that token was. *)
FunctionCallChecked(tok, id, args) ==
    IF tok.kind = "Some" /\ tok.val.type = "RParen"
    THEN Ok(SQLFunction(id, args))
    ELSE Err(ParserError("Expected )"))
FunctionCallResult(tok, id, args) == Ok(SQLFunction(id, args))

(* parse_select, lines 354-364: the trailing-token check. *)
SelectResultUnchecked(next, projection, selection, relation) ==
    Ok(SQLSelect(projection, selection, relation))
SelectResult(next, projection, selection, relation) ==
    IF next.kind = "Some"
    THEN Err(ParserError("Unexpected token at end of SELECT"))
    ELSE Ok(SQLSelect(projection, selection, relation))

(* parse_expr_list, lines 373-380: what the loop does after an item. *)
ExprListNext(next) ==
    IF next.kind = "Some"
    THEN IF next.val.type = "Comma" THEN "consume" ELSE "break"
    ELSE "again"

(***************************************************************************)
(* Inputs: every short text over CharAlphabet and every short token        *)
(* sequence over TokAlphabet, the queries of the tests and of the          *)
(* documentation, and a family of rendered SELECT statements.              *)
(***************************************************************************)
CharAlphabet == {" ", "\n", "a", "1", ",", "(", "=", "<", ">", "#", "@"}

QSimpleSelect ==
    <<"S","E","L","E","C","T"," ","i","d",","," ","f","n","a","m","e",",",
    " ","l","n","a","m","e"," ","F","R","O","M"," ","c","u","s","t","o",
    "m","e","r"," ","W","H","E","R","E"," ","i","d"," ","="," ","1">>
QSelect1 ==
    <<"S","E","L","E","C","T"," ","1">>
QSelectAB ==
    <<"S","E","L","E","C","T"," ","a",","," ","b">>
QTrailing ==
    <<"S","E","L","E","C","T"," ","1"," ","2">>
QSelectLt ==
    <<"S","E","L","E","C","T"," ","1"," ","<"," ","2">>
QHash ==
    <<"S","E","L","E","C","T"," ","#">>
QChainEqEq ==
    <<"a"," ","="," ","b"," ","="," ","c">>
QChainEqGt ==
    <<"a"," ","="," ","b"," ",">"," ","c">>
QChainGtEq ==
    <<"a"," ",">"," ","b"," ","="," ","c">>
QChainGtGt ==
    <<"a"," ",">"," ","b"," ",">"," ","c">>
QSwallow ==
    <<"S","E","L","E","C","T"," ","f","(","a"," ","W","H","E","R","E"," ",
    "F","R","O","M"," ","t">>
QFunction ==
    <<"S","E","L","E","C","T"," ","s","q","r","t","(","i","d",")"," ","F",
    "R","O","M"," ","f","o","o">>
QStar ==
    <<"S","E","L","E","C","T"," ","*"," ","F","R","O","M"," ","c","u","s",
    "t","o","m","e","r"," ","W","H","E","R","E"," ","i","d"," ","="," ",
    "1">>
QOverflow ==
    <<"S","E","L","E","C","T"," ","a"," ","F","R","O","M"," ","t"," ","W",
    "H","E","R","E"," ","a"," ","="," ","9","2","2","3","3","7","2","0",
    "3","6","8","5","4","7","7","5","8","0","8">>
QLowerCase ==
    <<"s","e","l","e","c","t"," ","a"," ","f","r","o","m"," ","t"," ","w",
    "h","e","r","e"," ","a"," ",">"," ","0","0","7">>
QSpaced ==
    <<"S","E","L","E","C","T","\t","a","\n","F","R","O","M"," "," "," ",
    "t">>
QPlus ==
    <<"a"," ","+"," ","b">>
QMinus ==
    <<"a"," ","-"," ","b">>
QMult ==
    <<"a"," ","*"," ","b">>
QDiv ==
    <<"a"," ","/"," ","b">>
QLtEq ==
    <<"a"," ","<","="," ","b">>
QNeq ==
    <<"a"," ","<",">"," ","b">>
QGtEq ==
    <<"a"," ",">","="," ","b">>
QWhereLt ==
    <<"S","E","L","E","C","T"," ","a"," ","F","R","O","M"," ","t"," ","W",
    "H","E","R","E"," ","a"," ","="," ","1"," ","<"," ","2">>

NamedQueries ==
    {QSimpleSelect, QSelect1, QSelectAB, QTrailing, QSelectLt, QHash, QChainEqEq, QChainEqGt, QChainGtEq, QChainGtGt, QSwallow, QFunction, QStar, QOverflow, QLowerCase, QSpaced, QPlus, QMinus, QMult, QDiv, QLtEq, QNeq, QGtEq, QWhereLt}

SeqsUpTo(S, n) == UNION {[1..k -> S] : k \in 0..n}

QueryInputs == SeqsUpTo(CharAlphabet, MaxQueryLen) \cup NamedQueries

KwSelect == Keyword(<<"S","E","L","E","C","T">>)
KwFrom == Keyword(<<"F","R","O","M">>)
KwWhere == Keyword(<<"W","H","E","R","E">>)

TokAlphabet ==
    {KwSelect, KwFrom, KwWhere, Identifier(<<"a">>), Number(<<"1">>), Tok("Comma"),
     Tok("LParen"), Tok("RParen"), Tok("Eq"), Tok("Gt"), Tok("Lt"), Tok("Plus")}

(* The token text of an expression, and of a SELECT with all three clauses. *)
RECURSIVE Render(_)
RECURSIVE RenderList(_)
Render(e) ==
    CASE e.kind = "SQLIdentifier" -> <<Identifier(e.id)>>
      [] e.kind = "SQLLiteralInt" -> <<Number(e.value)>>
      [] e.kind = "SQLFunction" ->
           <<Identifier(e.id), Tok("LParen")>> \o RenderList(e.args) \o <<Tok("RParen")>>
      [] e.kind = "SQLBinaryExpr" ->
           Render(e.left) \o <<Tok(IF e.op = "EQ" THEN "Eq" ELSE "Gt")>>
                          \o Render(e.right)
RenderList(l) ==
    IF Len(l) = 1 THEN Render(l[1])
    ELSE Render(l[1]) \o <<Tok("Comma")>> \o RenderList(Tail(l))
RenderSelect(p, r, s) ==
    <<KwSelect>> \o RenderList(p) \o <<KwFrom>> \o Render(r) \o <<KwWhere>> \o Render(s)

IdA == SQLIdentifier(<<"a">>)
Lit1 == SQLLiteralInt(<<"1">>)
FamilyExprs ==
    {IdA, Lit1, SQLFunction(<<"f">>, <<IdA, Lit1>>),
     SQLBinaryExpr(IdA, "EQ", Lit1), SQLBinaryExpr(Lit1, "GT", IdA)}
FamilyLists == UNION {[1..k -> FamilyExprs] : k \in 1..MaxProj}
SelectFamily ==
    {RenderSelect(p, r, s) : p \in FamilyLists, r \in FamilyExprs, s \in FamilyExprs}

(* Two chained comparisons, x o1 y o2 z. *)
ChainOperands ==
    {SQLIdentifier(<<"a">>), SQLIdentifier(<<"b">>), SQLIdentifier(<<"c">>), Lit1}
ChainOps == {"EQ", "GT"}
OpTok(op) == Tok(IF op = "EQ" THEN "Eq" ELSE "Gt")
ChainTokens(x, o1, y, o2, z) ==
    Render(x) \o <<OpTok(o1)>> \o Render(y) \o <<OpTok(o2)>> \o Render(z)
ChainFamily ==
    {ChainTokens(x, o1, y, o2, z) :
        x \in ChainOperands, y \in ChainOperands, z \in ChainOperands,
        o1 \in ChainOps, o2 \in ChainOps}

TokenInputs == SeqsUpTo(TokAlphabet, MaxTokLen) \cup SelectFamily \cup ChainFamily

(***************************************************************************)
(* State.  entry is the public operation that was called: parse_sql on a   *)
(* query text, or Parser::new(tokens).parse() on a token sequence.         *)
(* stack is the chain of active parser calls, ret the value the last       *)
(* returned call handed to its caller.                                     *)
(***************************************************************************)
Init ==
    /\ \/ /\ entry = "parse_sql"
          /\ query \in QueryInputs
          /\ tokens = <<>>
          /\ phase = "scan"
       \/ /\ entry = "parse"
          /\ query = <<>>
          /\ tokens \in TokenInputs
          /\ phase = "ready"
    /\ pos = 0
    /\ rawTokens = <<>>
    /\ tokResult = NoRet
    /\ index = 0
    /\ stack = <<>>
    /\ ret = NoRet
    /\ outcome = NoRet
    /\ func = "none"
    /\ fargs = <<>>
    /\ result = NoRet

Frame(fn, pc) ==
    [fn |-> fn, pc |-> pc, precedence |-> 0, expr |-> None, id |-> <<>>,
     op |-> "", list |-> <<>>, relation |-> None, selection |-> None]

Top == stack[Len(stack)]
At(fn, pc) == phase = "parsing" /\ stack # <<>> /\ Top.fn = fn /\ Top.pc = pc
SetTop(f) == [stack EXCEPT ![Len(stack)] = f]
DoCall(caller, callee) == stack' = Append(SetTop(caller), callee) /\ ret' = NoRet
DoReturn(r) == stack' = SubSeq(stack, 1, Len(stack) - 1) /\ ret' = r
DoGoto(f) == stack' = SetTop(f) /\ ret' = NoRet

ExecUnchanged == UNCHANGED <<func, fargs, result>>
ScannerUnchanged == UNCHANGED <<entry, query, pos, rawTokens, tokResult>>
ParserUnchanged == UNCHANGED <<tokens, index, stack, ret>>

(***************************************************************************)
(* Tokenizer::tokenize, lines 57-71: the while-let loop over next_token,   *)
(* then the filter.                                                        *)
(***************************************************************************)
TokenizePush ==
    /\ ExecUnchanged
    /\ phase = "scan"
    /\ Len(rawTokens) < Len(query) + MaxExtraTokens
    /\ LET r == NextToken(query, pos) IN
       /\ r.res.status = "Ok" /\ r.res.val.kind = "Some"
       /\ rawTokens' = Append(rawTokens, r.res.val.val)
       /\ pos' = r.pos
    /\ UNCHANGED <<entry, query, tokResult, phase, outcome>>
    /\ ParserUnchanged

TokenizeReturn ==
    /\ ExecUnchanged
    /\ phase = "scan"
    /\ LET r == NextToken(query, pos) IN
       /\ r.res.status = "Ok" /\ r.res.val.kind = "None"
       /\ tokResult' = Ok(FilterWhitespace(rawTokens))
    /\ phase' = "scanned"
    /\ UNCHANGED <<entry, query, pos, rawTokens, outcome>>
    /\ ParserUnchanged

TokenizeFail ==
    /\ ExecUnchanged
    /\ phase = "scan"
    /\ LET r == NextToken(query, pos) IN
       /\ r.res.status = "Err"
       /\ tokResult' = r.res
    /\ phase' = "scanned"
    /\ UNCHANGED <<entry, query, pos, rawTokens, outcome>>
    /\ ParserUnchanged

(***************************************************************************)
(* Parser::parse_sql, lines 173-178: unwrap of the tokenizer's result,     *)
(* then Parser::new.                                                       *)
(***************************************************************************)
ParseSqlUnwrapOk ==
    /\ ExecUnchanged
    /\ phase = "scanned"
    /\ tokResult.status = "Ok"
    /\ tokens' = tokResult.val
    /\ index' = 0
    /\ phase' = "ready"
    /\ UNCHANGED <<stack, ret, outcome>>
    /\ ScannerUnchanged

ParseSqlUnwrapPanic ==
    /\ ExecUnchanged
    /\ phase = "scanned"
    /\ tokResult.status = "Err"
    /\ outcome' = Panic
    /\ phase' = "done"
    /\ ParserUnchanged
    /\ ScannerUnchanged

(* Parser::parse, lines 180-182. *)
ParseCall ==
    /\ ExecUnchanged
    /\ phase = "ready"
    /\ stack' = <<Frame("parse_expr", "start")>>
    /\ ret' = NoRet
    /\ phase' = "parsing"
    /\ UNCHANGED <<tokens, index, outcome>>
    /\ ScannerUnchanged

ParseReturn ==
    /\ ExecUnchanged
    /\ phase = "parsing"
    /\ stack = <<>>
    /\ outcome' = ret
    /\ phase' = "done"
    /\ ParserUnchanged
    /\ ScannerUnchanged

(***************************************************************************)
(* Parser::parse_expr, lines 184-201.                                      *)
(***************************************************************************)
ParseExprStart ==
    /\ ExecUnchanged
    /\ At("parse_expr", "start")
    /\ DoCall([Top EXCEPT !.pc = "afterPrefix"], Frame("parse_prefix", "start"))
    /\ UNCHANGED <<tokens, index, phase, outcome>>
    /\ ScannerUnchanged

ParseExprAfterPrefix ==
    /\ ExecUnchanged
    /\ At("parse_expr", "afterPrefix")
    /\ IF ret.status = "Err"
       THEN DoReturn(ret)
       ELSE DoGoto([Top EXCEPT !.pc = "loop", !.expr = ret.val])
    /\ UNCHANGED <<tokens, index, phase, outcome>>
    /\ ScannerUnchanged

ParseExprLoop ==
    /\ ExecUnchanged
    /\ At("parse_expr", "loop")
    /\ LET tok == PeekToken(tokens, index) IN
       IF tok.kind = "None"
       THEN DoReturn(Ok(Top.expr))
       ELSE LET next_precedence == GetPrecedence(tok.val) IN
            IF StopsAt(Top.precedence, next_precedence)
            THEN DoReturn(Ok(Top.expr))
            ELSE DoCall([Top EXCEPT !.pc = "afterInfix"],
                        [Frame("parse_infix", "start") EXCEPT
                            !.expr = Top.expr, !.precedence = next_precedence])
    /\ UNCHANGED <<tokens, index, phase, outcome>>
    /\ ScannerUnchanged

ParseExprAfterInfix ==
    /\ ExecUnchanged
    /\ At("parse_expr", "afterInfix")
    /\ IF ret.status = "Err"
       THEN DoReturn(ret)
       ELSE IF ret.val.kind = "Some"
       THEN DoGoto([Top EXCEPT !.pc = "loop", !.expr = ret.val.val])
       ELSE DoGoto([Top EXCEPT !.pc = "loop"])
    /\ UNCHANGED <<tokens, index, phase, outcome>>
    /\ ScannerUnchanged

(***************************************************************************)
(* Parser::parse_prefix, lines 203-237.                                    *)
(***************************************************************************)
ParsePrefixStart ==
    /\ ExecUnchanged
    /\ At("parse_prefix", "start")
    /\ LET nt == ParserNextToken(tokens, index)
           t == nt.tok.val
       IN
       IF nt.tok.kind = "None"
       THEN /\ DoReturn(Err(ParserError("Prefix parser expected a keyword but hit EOF")))
            /\ index' = nt.index
            /\ UNCHANGED <<phase, outcome>>
       ELSE CASE t.type = "Keyword" ->
                   /\ IF ToUppercase(t.text) = <<"S","E","L","E","C","T">>
                      THEN DoCall([Top EXCEPT !.pc = "afterSelect"],
                                  Frame("parse_select", "start"))
                      ELSE DoReturn(Err(ParserError("No prefix parser for keyword")))
                   /\ index' = nt.index
                   /\ UNCHANGED <<phase, outcome>>
              [] t.type = "Identifier" ->
                   /\ IF PeekToken(tokens, nt.index) = Some(Tok("LParen"))
                      THEN /\ index' = NextIndex(tokens, nt.index)
                           /\ DoCall([Top EXCEPT !.pc = "afterArgs", !.id = t.text],
                                     Frame("parse_expr_list", "loop"))
                      ELSE /\ index' = nt.index
                           /\ DoReturn(Ok(SQLIdentifier(t.text)))
                   /\ UNCHANGED <<phase, outcome>>
              [] t.type = "Number" ->
                   /\ index' = nt.index
                   /\ IF ParseI64(t.text).status = "Ok"
                      THEN /\ DoReturn(Ok(SQLLiteralInt(ParseI64(t.text).val)))
                           /\ UNCHANGED <<phase, outcome>>
                      ELSE /\ stack' = <<>>
                           /\ ret' = NoRet
                           /\ outcome' = Panic
                           /\ phase' = "done"
              [] OTHER ->
                   /\ DoReturn(Err(ParserError("Prefix parser expected a keyword but found")))
                   /\ index' = nt.index
                   /\ UNCHANGED <<phase, outcome>>
    /\ UNCHANGED tokens
    /\ ScannerUnchanged

ParsePrefixAfterSelect ==
    /\ ExecUnchanged
    /\ At("parse_prefix", "afterSelect")
    /\ DoReturn(ret)
    /\ UNCHANGED <<tokens, index, phase, outcome>>
    /\ ScannerUnchanged

ParsePrefixAfterArgs ==
    /\ ExecUnchanged
    /\ At("parse_prefix", "afterArgs")
    /\ IF ret.status = "Err"
       THEN /\ DoReturn(ret)
            /\ UNCHANGED index
       ELSE LET nt == ParserNextToken(tokens, index) IN
            /\ index' = nt.index
            /\ DoReturn(FunctionCallResult(nt.tok, Top.id, ret.val))
    /\ UNCHANGED <<tokens, phase, outcome>>
    /\ ScannerUnchanged

(***************************************************************************)
(* Parser::parse_infix, lines 239-254.                                     *)
(***************************************************************************)
ParseInfixStart ==
    /\ ExecUnchanged
    /\ At("parse_infix", "start")
    /\ LET nt == ParserNextToken(tokens, index) IN
       /\ index' = nt.index
       /\ IF nt.tok.kind = "None"
          THEN DoReturn(Ok(None))
          ELSE IF HasInfixRule(nt.tok.val)
          THEN IF ToSqlOperator(nt.tok.val).status = "Err"
               THEN DoReturn(ToSqlOperator(nt.tok.val))
               ELSE DoCall([Top EXCEPT !.pc = "afterRight",
                                       !.op = ToSqlOperator(nt.tok.val).val],
                           [Frame("parse_expr", "start") EXCEPT
                               !.precedence = Top.precedence])
          ELSE DoReturn(Err(ParserError("No infix parser for token")))
    /\ UNCHANGED <<tokens, phase, outcome>>
    /\ ScannerUnchanged

ParseInfixAfterRight ==
    /\ ExecUnchanged
    /\ At("parse_infix", "afterRight")
    /\ IF ret.status = "Err"
       THEN DoReturn(ret)
       ELSE DoReturn(Ok(Some(SQLBinaryExpr(Top.expr, Top.op, ret.val))))
    /\ UNCHANGED <<tokens, index, phase, outcome>>
    /\ ScannerUnchanged

(***************************************************************************)
(* Parser::parse_select, lines 332-365.                                    *)
(***************************************************************************)
ParseSelectStart ==
    /\ ExecUnchanged
    /\ At("parse_select", "start")
    /\ DoCall([Top EXCEPT !.pc = "afterProjection"], Frame("parse_expr_list", "loop"))
    /\ UNCHANGED <<tokens, index, phase, outcome>>
    /\ ScannerUnchanged

ParseSelectAfterProjection ==
    /\ ExecUnchanged
    /\ At("parse_select", "afterProjection")
    /\ IF ret.status = "Err"
       THEN /\ DoReturn(ret)
            /\ UNCHANGED index
       ELSE LET k == ParseKeyword(tokens, index, <<"F","R","O","M">>) IN
            /\ index' = k.index
            /\ IF k.matched
               THEN DoCall([Top EXCEPT !.pc = "afterRelation", !.list = ret.val],
                           Frame("parse_expr", "start"))
               ELSE DoGoto([Top EXCEPT !.pc = "where", !.list = ret.val])
    /\ UNCHANGED <<tokens, phase, outcome>>
    /\ ScannerUnchanged

ParseSelectAfterRelation ==
    /\ ExecUnchanged
    /\ At("parse_select", "afterRelation")
    /\ IF ret.status = "Err"
       THEN DoReturn(ret)
       ELSE DoGoto([Top EXCEPT !.pc = "where", !.relation = Some(ret.val)])
    /\ UNCHANGED <<tokens, index, phase, outcome>>
    /\ ScannerUnchanged

ParseSelectWhere ==
    /\ ExecUnchanged
    /\ At("parse_select", "where")
    /\ LET k == ParseKeyword(tokens, index, <<"W","H","E","R","E">>) IN
       /\ index' = k.index
       /\ IF k.matched
          THEN DoCall([Top EXCEPT !.pc = "afterSelection"], Frame("parse_expr", "start"))
          ELSE DoGoto([Top EXCEPT !.pc = "end"])
    /\ UNCHANGED <<tokens, phase, outcome>>
    /\ ScannerUnchanged

ParseSelectAfterSelection ==
    /\ ExecUnchanged
    /\ At("parse_select", "afterSelection")
    /\ IF ret.status = "Err"
       THEN DoReturn(ret)
       ELSE DoGoto([Top EXCEPT !.pc = "end", !.selection = Some(ret.val)])
    /\ UNCHANGED <<tokens, index, phase, outcome>>
    /\ ScannerUnchanged

ParseSelectEnd ==
    /\ ExecUnchanged
    /\ At("parse_select", "end")
    /\ DoReturn(SelectResult(PeekToken(tokens, index), Top.list, Top.selection,
                             Top.relation))
    /\ UNCHANGED <<tokens, index, phase, outcome>>
    /\ ScannerUnchanged

(***************************************************************************)
(* Parser::parse_expr_list, lines 367-383.                                 *)
(***************************************************************************)
ParseExprListLoop ==
    /\ ExecUnchanged
    /\ At("parse_expr_list", "loop")
    /\ DoCall([Top EXCEPT !.pc = "afterItem"], Frame("parse_expr", "start"))
    /\ UNCHANGED <<tokens, index, phase, outcome>>
    /\ ScannerUnchanged

ParseExprListAfterItem ==
    /\ ExecUnchanged
    /\ At("parse_expr_list", "afterItem")
    /\ IF ret.status = "Err"
       THEN /\ DoReturn(ret)
            /\ UNCHANGED index
       ELSE LET expr_list == Append(Top.list, ret.val)
                what == ExprListNext(PeekToken(tokens, index))
            IN
            CASE what = "consume" ->
                   /\ index' = NextIndex(tokens, index)
                   /\ DoGoto([Top EXCEPT !.pc = "loop", !.list = expr_list])
              [] what = "break" ->
                   /\ DoReturn(Ok(expr_list))
                   /\ UNCHANGED index
              [] what = "again" ->
                   /\ DoGoto([Top EXCEPT !.pc = "loop", !.list = expr_list])
                   /\ UNCHANGED index
    /\ UNCHANGED <<tokens, phase, outcome>>
    /\ ScannerUnchanged

Next ==
    \/ TokenizePush
    \/ TokenizeReturn
    \/ TokenizeFail
    \/ ParseSqlUnwrapOk
    \/ ParseSqlUnwrapPanic
    \/ ParseCall
    \/ ParseReturn
    \/ ParseExprStart
    \/ ParseExprAfterPrefix
    \/ ParseExprLoop
    \/ ParseExprAfterInfix
    \/ ParsePrefixStart
    \/ ParsePrefixAfterSelect
    \/ ParsePrefixAfterArgs
    \/ ParseInfixStart
    \/ ParseInfixAfterRight
    \/ ParseSelectStart
    \/ ParseSelectAfterProjection
    \/ ParseSelectAfterRelation
    \/ ParseSelectWhere
    \/ ParseSelectAfterSelection
    \/ ParseSelectEnd
    \/ ParseExprListLoop
    \/ ParseExprListAfterItem

Spec == Init /\ [][Next]_vars

(***************************************************************************)
(* Token sequences and nodes of the documented examples.                   *)
(***************************************************************************)
Id(s) == SQLIdentifier(s)
TId(s) == Identifier(s)
TNum1 == Number(<<"1">>)
TNum2 == Number(<<"2">>)

TSelect1 == <<KwSelect, TNum1>>
TSelectAB == <<KwSelect, TId(<<"a">>), Tok("Comma"), TId(<<"b">>)>>
TTrailing == <<KwSelect, TNum1, TNum2>>
TSelectLt == <<KwSelect, TNum1, Tok("Lt"), TNum2>>
TChainEqEq == <<TId(<<"a">>), Tok("Eq"), TId(<<"b">>), Tok("Eq"), TId(<<"c">>)>>
TSwallow ==
    <<KwSelect, TId(<<"f">>), Tok("LParen"), TId(<<"a">>), KwWhere, KwFrom, TId(<<"t">>)>>
TSimpleSelect ==
    <<KwSelect, TId(<<"i","d">>), Tok("Comma"), TId(<<"f","n","a","m","e">>), Tok("Comma"),
      TId(<<"l","n","a","m","e">>), KwFrom, TId(<<"c","u","s","t","o","m","e","r">>), KwWhere,
      TId(<<"i","d">>), Tok("Eq"), TNum1>>
SimpleSelectNode ==
    SQLSelect(<<Id(<<"i","d">>), Id(<<"f","n","a","m","e">>), Id(<<"l","n","a","m","e">>)>>,
              Some(SQLBinaryExpr(Id(<<"i","d">>), "EQ", Lit1)),
              Some(Id(<<"c","u","s","t","o","m","e","r">>)))

Done == phase = "done"
IsPrefix(a, b) == Len(a) <= Len(b) /\ SubSeq(b, 1, Len(a)) = a
UnwiredOps == {"Lt", "LtEq", "Neq", "GtEq", "Plus", "Minus", "Mult", "Div"}

(***************************************************************************)
(* C1: parse_sql returns the tokenizer's failure as its own outcome: when  *)
(* tokenize fails with TokenizerError naming a character, parse_sql        *)
(* returns that same error value.                                          *)
(***************************************************************************)
C1_ParseSqlReturnsTokenizerError ==
    (entry = "parse_sql" /\ Done /\ tokResult.status = "Err")
        => (outcome = tokResult /\ outcome.val.kind = "TokenizerError")

(***************************************************************************)
(* C2: a SELECT whose projection list is the last thing in the token       *)
(* sequence parses to a Select with that projection and with relation and  *)
(* selection empty, because the expression list stops when no token        *)
(* remains.                                                                *)
(***************************************************************************)
C2_ListStopsAtEndOfInput ==
    /\ (Done /\ tokens = TSelect1) => outcome = Ok(SQLSelect(<<Lit1>>, None, None))
    /\ (Done /\ tokens = TSelectAB)
          => outcome = Ok(SQLSelect(<<Id(<<"a">>), Id(<<"b">>)>>, None, None))

(***************************************************************************)
(* C3 as stated: two chained operators among = and > parse                 *)
(* right-associatively, x o1 (y o2 z).                                     *)
(***************************************************************************)
C3_RightAssociative ==
    Done =>
        \A x \in ChainOperands, y \in ChainOperands, z \in ChainOperands,
           o1 \in ChainOps, o2 \in ChainOps :
            tokens = ChainTokens(x, o1, y, o2, z)
                => outcome = Ok(SQLBinaryExpr(x, o1, SQLBinaryExpr(y, o2, z)))

(***************************************************************************)
(* C3 as amended: two chained operators among = and > parse                *)
(* left-associatively, (x o1 y) o2 z.                                      *)
(***************************************************************************)
C3_LeftAssociative ==
    Done =>
        \A x \in ChainOperands, y \in ChainOperands, z \in ChainOperands,
           o1 \in ChainOps, o2 \in ChainOps :
            tokens = ChainTokens(x, o1, y, o2, z)
                => outcome = Ok(SQLBinaryExpr(SQLBinaryExpr(x, o1, y), o2, z))

C3_Witness ==
    /\ Done
    /\ tokens = TChainEqEq
    /\ outcome.status = "Ok"
    /\ outcome.val.kind = "SQLBinaryExpr"

(***************************************************************************)
(* C4: every step of the tokenizer's loop that emits a token consumes at   *)
(* least one character of the query, so that the end of input is reached.  *)
(***************************************************************************)
C4_EveryEmittedTokenConsumes ==
    [][rawTokens' # rawTokens => pos' > pos]_vars

(***************************************************************************)
(* C5: SELECT <list> FROM <expr> WHERE <expr> yields a Select whose        *)
(* projection is the list in source order, whose relation is the FROM      *)
(* expression and whose selection is the WHERE expression; the documented  *)
(* query yields the documented node.                                       *)
(***************************************************************************)
C5_SelectFromWhere ==
    Done =>
        /\ tokens \in SelectFamily =>
              \A p \in FamilyLists :
                  IsPrefix(<<KwSelect>> \o RenderList(p) \o <<KwFrom>>, tokens) =>
                      \A r \in FamilyExprs, s \in FamilyExprs :
                          tokens = RenderSelect(p, r, s)
                              => outcome = Ok(SQLSelect(p, Some(s), Some(r)))
        /\ tokens = TSimpleSelect =>
              /\ outcome = Ok(SimpleSelectNode)
              /\ Len(outcome.val.projection) = 3

C5_Witness ==
    /\ Done
    /\ entry = "parse_sql"
    /\ query = QSimpleSelect
    /\ tokens = TSimpleSelect
    /\ outcome.status = "Ok"

(***************************************************************************)
(* C6: parse returns a Select only with the cursor at the token count; a   *)
(* token left over at the end of parse_select makes it fail with           *)
(* ParserError, that failure is the outcome of the parse, and SELECT 1 2   *)
(* fails so.                                                               *)
(***************************************************************************)
C6_SelectConsumesEverything ==
    /\ []((Done /\ outcome.status = "Ok" /\ outcome.val.kind = "SQLSelect")
             => index = Len(tokens))
    /\ [][(At("parse_select", "end") /\ index < Len(tokens))
             => (/\ ret'.status = "Err"
                 /\ ret'.val.kind = "ParserError"
                 /\ Len(stack') < Len(stack))]_vars
    /\ [][(phase = "parsing" /\ ret.status = "Err")
             => (ret' = ret /\ (phase' = "done" => outcome' = ret))]_vars
    /\ []((Done /\ tokens = TTrailing)
             => outcome = Err(ParserError("Unexpected token at end of SELECT")))

C6_Witness ==
    /\ Done
    /\ tokens = TTrailing
    /\ index = 2
    /\ outcome.status = "Err"

(***************************************************************************)
(* C7: a token among < <= <> >= + - * / after an expression makes the      *)
(* parse fail with ParserError: the infix step rejects it, no parse that   *)
(* returns a node has consumed or stopped at such a token, and             *)
(* SELECT 1 < 2 fails with ParserError.                                    *)
(***************************************************************************)
C7_UnwiredOperatorFails ==
    /\ [][(/\ At("parse_expr", "loop")
           /\ Top.precedence = 0
           /\ index < Len(tokens)
           /\ tokens[index + 1].type \in UnwiredOps)
             => (/\ Len(stack') = Len(stack) + 1
                 /\ stack'[Len(stack')].fn = "parse_infix"
                 /\ index' = index)]_vars
    /\ [][(/\ At("parse_infix", "start")
           /\ index < Len(tokens)
           /\ tokens[index + 1].type \in UnwiredOps)
             => (/\ ret' = Err(ParserError("No infix parser for token"))
                 /\ Len(stack') < Len(stack))]_vars
    /\ []((Done /\ outcome.status = "Ok")
             => \A i \in 1..Len(tokens) :
                    i <= index + 1 => tokens[i].type \notin UnwiredOps)
    /\ []((Done /\ tokens = TSelectLt)
             => outcome = Err(ParserError("No infix parser for token")))

C7_Witness ==
    /\ Done
    /\ tokens = TSelectLt
    /\ index = 3
    /\ outcome.status = "Err"

(***************************************************************************)
(* C8: the token sequence tokenize returns holds no Whitespace token, and  *)
(* a query text that differs from this one only in the kind or the amount  *)
(* of whitespace at a place where there is whitespace tokenizes to the     *)
(* same sequence.                                                          *)
(***************************************************************************)
WhitespaceChars == {" ", "\t", "\n"}
ReplaceAt(q, i, w) == [q EXCEPT ![i] = w]
InsertAfter(q, i, w) == SubSeq(q, 1, i) \o <<w>> \o SubSeq(q, i + 1, Len(q))
WhitespaceVariants(q) ==
    UNION { {ReplaceAt(q, i, w), InsertAfter(q, i, w), InsertAfter(q, i - 1, w)} :
              i \in {j \in 1..Len(q) : q[j] \in WhitespaceChars}, w \in WhitespaceChars }

C8_WhitespaceIsFiltered ==
    tokResult.status = "Ok" =>
        /\ \A i \in 1..Len(tokResult.val) : tokResult.val[i].type # "Whitespace"
        /\ \A v \in WhitespaceVariants(query) : TokenizeAll(v) = tokResult

C8_Witness ==
    /\ tokResult.status = "Ok"
    /\ query = QSpaced
    /\ Len(rawTokens) > Len(tokResult.val)

(***************************************************************************)
(* C9: the cursor stays between 0 and the token count and no step of the   *)
(* parse decreases it.                                                     *)
(***************************************************************************)
C9_CursorBoundedMonotone ==
    /\ [](0 <= index /\ index <= Len(tokens))
    /\ [][index' >= index]_vars

C9_Witness ==
    /\ phase = "parsing"
    /\ Len(tokens) > 0
    /\ index = Len(tokens)
    /\ ret = Err(ParserError("Prefix parser expected a keyword but hit EOF"))

(***************************************************************************)
(* C10: after the argument list of a function call the parser consumes     *)
(* exactly one token, whatever it is, and builds the FunctionCall from the *)
(* arguments parsed; SELECT f(a WHERE FROM t parses to a Select with       *)
(* projection [f(a)] and relation t.                                       *)
(***************************************************************************)
C10_ClosingTokenUnchecked ==
    /\ [][(At("parse_prefix", "afterArgs") /\ ret.status = "Ok")
             => (/\ index' = index + 1
                 /\ ret' = Ok(SQLFunction(Top.id, ret.val))
                 /\ Len(stack') < Len(stack))]_vars
    /\ []((Done /\ tokens = TSwallow)
             => outcome = Ok(SQLSelect(<<SQLFunction(<<"f">>, <<Id(<<"a">>)>>)>>,
                                       None, Some(Id(<<"t">>)))))

C10_Witness ==
    /\ Done
    /\ tokens = TSwallow
    /\ index = Len(tokens)
    /\ outcome.status = "Ok"

(***************************************************************************)
(* Scalar functions of src/functions/geospatial.rs.  A Value is a Column   *)
(* holding an Array, or a value of another variant; an Array has a length  *)
(* and its ArrayData, which is Float64, another primitive type, or Struct  *)
(* holding a vector of any number of nested arrays.                        *)
(***************************************************************************)
Array(len, data) == [len |-> len, data |-> data]
Float64(v) == [type |-> "Float64", values |-> v]
Int64(v) == [type |-> "Int64", values |-> v]
Utf8(v) == [type |-> "Utf8", values |-> v]
Struct(fields) == [type |-> "Struct", values |-> fields]
Column(arr) == [variant |-> "Column", arr |-> arr]
Scalar == [variant |-> "Scalar", arr |-> Array(0, Int64(<<>>))]

ExecutionError(msg) == [kind |-> "ExecutionError", msg |-> msg]

PrimitiveArrays == {Array(2, Float64(<<1, 2>>)), Array(2, Int64(<<1, 2>>))}
StructArrays ==
    {Array(IF f = <<>> THEN 0 ELSE f[1].len, Struct(f)) :
        f \in SeqsUpTo(PrimitiveArrays, MaxFields)}
Values == {Scalar} \cup {Column(a) : a \in PrimitiveArrays \cup StructArrays}
ArgLists == SeqsUpTo(Values, MaxArgs)

MinLen(a, b) == IF Len(a) <= Len(b) THEN Len(a) ELSE Len(b)

(* format!("POINT ({} {})", lat2, lon2) *)
PointText(lat2, lon2) == <<"POINT (", lat2, " ", lon2, ")">>

(* STPointFunc::execute, lines 33-56. *)
STPointExecute(a) ==
    IF Len(a) # 2
    THEN Err(ExecutionError("Wrong argument count for ST_Point"))
    ELSE IF a[1].variant = "Column" /\ a[2].variant = "Column"
    THEN IF a[1].arr.data.type = "Float64" /\ a[2].arr.data.type = "Float64"
         THEN Ok(Column(Array(a[1].arr.len, Struct(<<a[1].arr, a[2].arr>>))))
         ELSE Err(ExecutionError("Unsupported type for ST_Point"))
    ELSE Err(ExecutionError("Unsupported type for ST_Point"))

(* STAsText::execute, lines 81-113.  fields[0] and fields[1] are indexed
   before anything is known of the length of fields; an index past the end
   of the vector panics. *)
STAsTextExecute(a) ==
    IF Len(a) # 1
    THEN Err(ExecutionError("Wrong argument count for ST_AsText"))
    ELSE IF a[1].variant = "Column"
    THEN IF a[1].arr.data.type = "Struct"
         THEN LET fields == a[1].arr.data.values IN
              IF Len(fields) < 2
              THEN Panic
              ELSE IF fields[1].data.type = "Float64" /\ fields[2].data.type = "Float64"
              THEN LET lat == fields[1].data.values
                       lon == fields[2].data.values
                       wkt == [i \in 1..MinLen(lat, lon) |-> PointText(lat[i], lon[i])]
                   IN Ok(Column(Array(Len(wkt), Utf8(wkt))))
              ELSE Err(ExecutionError("Unsupported type for ST_AsText"))
         ELSE Err(ExecutionError("Unsupported type for ST_AsText"))
    ELSE Err(ExecutionError("Unsupported type for ST_AsText"))

(* The declared parameters: STPointFunc::args, lines 58-63, two Float64
   columns; STAsText::args, lines 115-124, one struct of two Float64. *)
IsFloat64Column(v) == v.variant = "Column" /\ v.arr.data.type = "Float64"
MatchesSTPoint(a) == Len(a) = 2 /\ IsFloat64Column(a[1]) /\ IsFloat64Column(a[2])
MatchesSTAsText(a) ==
    /\ Len(a) = 1
    /\ a[1].variant = "Column"
    /\ a[1].arr.data.type = "Struct"
    /\ Len(a[1].arr.data.values) = 2
    /\ \A i \in 1..2 : a[1].arr.data.values[i].data.type = "Float64"
MatchesDeclared == IF func = "ST_Point" THEN MatchesSTPoint(fargs) ELSE MatchesSTAsText(fargs)

(***************************************************************************)
(* One call of execute on one scalar function with one argument list.      *)
(***************************************************************************)
InitExec ==
    /\ entry = "execute"
    /\ query = <<>>
    /\ tokens = <<>>
    /\ phase = "exec"
    /\ pos = 0
    /\ rawTokens = <<>>
    /\ tokResult = NoRet
    /\ index = 0
    /\ stack = <<>>
    /\ ret = NoRet
    /\ outcome = NoRet
    /\ func \in {"ST_Point", "ST_AsText"}
    /\ fargs \in ArgLists
    /\ result = NoRet

FrontEndUnchanged ==
    UNCHANGED <<entry, query, pos, rawTokens, tokResult, tokens, index, stack, ret,
                outcome>>

ExecuteSTPoint ==
    /\ phase = "exec"
    /\ func = "ST_Point"
    /\ result' = STPointExecute(fargs)
    /\ phase' = "executed"
    /\ UNCHANGED <<func, fargs>>
    /\ FrontEndUnchanged

ExecuteSTAsText ==
    /\ phase = "exec"
    /\ func = "ST_AsText"
    /\ result' = STAsTextExecute(fargs)
    /\ phase' = "executed"
    /\ UNCHANGED <<func, fargs>>
    /\ FrontEndUnchanged

NextExec ==
    \/ ExecuteSTPoint
    \/ ExecuteSTAsText

SpecExec == InitExec /\ [][NextExec]_vars

(***************************************************************************)
(* C11: execute of ST_Point and of ST_AsText returns an ExecutionError     *)
(* for every argument list whose count or element types do not match the   *)
(* declared parameters, and returns a value only when they match; a        *)
(* mismatching list neither aborts the call nor produces a value.          *)
(***************************************************************************)
C11_ExecuteRejectsMismatch ==
    phase = "executed" =>
        /\ ~MatchesDeclared =>
              (result.status = "Err" /\ result.val.kind = "ExecutionError")
        /\ MatchesDeclared => result.status = "Ok"

====
